---- MODULE Spec2Model ----
(***************************************************************************)
(* Model of the stream correlation and risk classification engine          *)
(* (FraudEngine, fraud_engine.py), the record classes it builds            *)
(* (models.py) and the task that feeds it (stream_consumer, main.py).      *)
(*                                                                         *)
(* Strings built with f-strings are modelled by their parts                *)
(* (f"{store}_{cam}_{window}" is <<store, cam, window>>), Python dicts as  *)
(* functions whose DOMAIN is the set of keys, keyword arguments as         *)
(* records, and time in units of the asyncio.sleep arguments.              *)
(***************************************************************************)
EXTENDS Integers, Sequences, FiniteSets, TLC

VARIABLES pending_vas, pending_pos, tasks, now, consumer, delivered,
          arrivals, analyzed, fired, sink, rule_vas, rule_pos_kw, rule_result

vars == <<pending_vas, pending_pos, tasks, now, consumer, delivered,
          arrivals, analyzed, fired, sink, rule_vas, rule_pos_kw, rule_result>>

engine_vars == <<pending_vas, pending_pos, tasks, now, consumer, delivered,
                 arrivals, analyzed, fired, sink>>

rule_vars == <<rule_vas, rule_pos_kw, rule_result>>

(***************************************************************************)
(* Bounds of the model.                                                    *)
(***************************************************************************)
MaxEvents == 3
MaxTicks == 5

(***************************************************************************)
(* Program constants.                                                      *)
(***************************************************************************)
SessionTimeout == 120
PosCleanupDelay == 150
DiscountThreshold == 20
RefundThreshold == 0

Quantum == SessionTimeout \div 4

\* Python None, where an object (a record) is expected and where a string is.
None == [none |-> TRUE]
NoneStr == "None"

Range(s) == {s[i] : i \in DOMAIN s}

(***************************************************************************)
(* models.py                                                               *)
(***************************************************************************)
TransactionMode == {"Cash", "Card", "UPI"}

TransactionStatus ==
  [GENUINE |-> "genuine", FRAUDULENT |-> "fraudulent",
   SUSPICIOUS |-> "suspicious", PENDING |-> "pending"]

AlertStatusNew == "new"

\* A pydantic model keeps the declared fields of the keyword arguments it is
\* given and ignores the others (the default extra = "ignore").
KeepFields(kw, fields) == [f \in (DOMAIN kw) \cap fields |-> kw[f]]

\* Declared fields of VASEvent; all are required.
VASEventFields ==
  {"StoreId", "CamId", "SellerWindowId", "SessionId", "SessionEnd",
   "ModeOfTransaction", "ReceiptGenerationStatus"}

VASEvent(kw) == KeepFields(kw, VASEventFields)

\* Declared fields of POSEvent.  "uid" stands for the identity of the Python
\* object, which no code reads.
POSEventFields ==
  {"StoreId", "CashierName", "POSId", "SessionTime", "ModeOfTransaction",
   "TransactionTotal", "uid"}

POSEvent(kw) == KeepFields(kw, POSEventFields)

\* hasattr(obj, name)
HasAttr(obj, name) == name \in DOMAIN obj

\* Transaction: fields without a default are required.
TransactionFields ==
  {"id", "shop_id", "cam_id", "pos_id", "cashier_name", "timestamp",
   "transaction_total", "fraud_probability_score", "status",
   "fraud_category", "notes"}

TransactionRequired ==
  {"id", "shop_id", "cam_id", "pos_id", "cashier_name", "timestamp",
   "transaction_total", "fraud_probability_score"}

TransactionDefaults ==
  [status |-> TransactionStatus.PENDING, fraud_category |-> None, notes |-> None]

\* Transaction(**kw): a ValidationError (ok = FALSE) when a required field is
\* missing, else the object with the declared fields and the defaults.
Transaction(kw) ==
  IF TransactionRequired \subseteq DOMAIN kw
  THEN [ok |-> TRUE,
        obj |-> [f \in TransactionFields |->
                   IF f \in DOMAIN kw THEN kw[f] ELSE TransactionDefaults[f]]]
  ELSE [ok |-> FALSE, obj |-> None]

AlertFields ==
  {"id", "transaction_id", "shop_id", "cashier_name",
   "fraud_probability_score", "timestamp", "status"}

AlertRequired ==
  {"id", "transaction_id", "shop_id", "cashier_name",
   "fraud_probability_score", "timestamp"}

\* Alert(**kw)
Alert(kw) ==
  IF AlertRequired \subseteq DOMAIN kw
  THEN [ok |-> TRUE,
        obj |-> [f \in AlertFields |->
                   IF f \in DOMAIN kw THEN kw[f] ELSE AlertStatusNew]]
  ELSE [ok |-> FALSE, obj |-> None]

(***************************************************************************)
(* FraudEngine.__init__: the lane table.                                   *)
(***************************************************************************)
stores == {"STR001", "STR002", "STR003"}

lanes ==
  {[cam_id |-> "CAM-01", window_id |-> "W1", pos_id |-> "POS-01"],
   [cam_id |-> "CAM-01", window_id |-> "W2", pos_id |-> "POS-02"],
   [cam_id |-> "CAM-02", window_id |-> "W1", pos_id |-> "POS-03"],
   [cam_id |-> "CAM-02", window_id |-> "W2", pos_id |-> "POS-04"]}

\* f"{store}_{cam_id}_{window_id}"
SellerWindowId(store, cam_id, window_id) == <<store, cam_id, window_id>>

\* Mutant of PosKey: the key is the terminal id alone.
PosKey_NoStore(store_id, pos_id) == <<pos_id>>

\* f"{store_id}_{pos_id}"
PosKey(store_id, pos_id) == <<store_id, pos_id>>

\* Mutant of mapping: every window is mapped to the terminal of the second lane.
mapping_OneTerminal ==
  [w \in {SellerWindowId(s, l.cam_id, l.window_id) : s \in stores, l \in lanes} |->
     "POS-02"]

\* self.mapping: SellerWindowId -> POSId
mapping ==
  [w \in {SellerWindowId(s, l.cam_id, l.window_id) : s \in stores, l \in lanes} |->
     (CHOOSE l \in lanes : l.cam_id = w[2] /\ l.window_id = w[3]).pos_id]

\* self.pos_config: POSId -> (CamId, WindowId)
pos_config ==
  [p \in {l.pos_id : l \in lanes} |->
     LET l == CHOOSE l \in lanes : l.pos_id = p IN <<l.cam_id, l.window_id>>]

\* dict.get(key): None when the key is absent
MappingGet(key, default) == IF key \in DOMAIN mapping THEN mapping[key] ELSE default

(***************************************************************************)
(* FraudEngine._analyze_pair: rule evaluation.                             *)
(***************************************************************************)
\* A rule description: the text of the f-string and the values formatted
\* into it.
Rule(text, args) == [text |-> text, args |-> args]

\* `word in r` for a rule description r.  The values formatted into the
\* descriptions (payment modes, numbers) contain neither word.
SubstringOf(word, r) ==
  <<word, r.text>> \in {<<"Mismatch", "Payment Mode Mismatch">>,
                        <<"Bill not generated", "Bill not generated in VAS">>}

\* Rule 1: Payment Mode Mismatch
RulePaymentMode(vas, pos) ==
  IF vas.ModeOfTransaction # pos.ModeOfTransaction
  THEN <<Rule("Payment Mode Mismatch",
              <<vas.ModeOfTransaction, pos.ModeOfTransaction>>)>>
  ELSE <<>>

\* Rule 2: Bill not generated
RuleBillNotGenerated(vas) ==
  IF ~vas.ReceiptGenerationStatus
  THEN <<Rule("Bill not generated in VAS", <<>>)>>
  ELSE <<>>

\* Rule 3: High Discount
RuleHighDiscount(pos) ==
  IF HasAttr(pos, "DiscountPercent") /\ pos.DiscountPercent > DiscountThreshold
  THEN <<Rule("High Discount", <<pos.DiscountPercent>>)>>
  ELSE <<>>

\* Rule 4: Refund
RuleRefund(pos) ==
  IF HasAttr(pos, "RefundAmount") /\ pos.RefundAmount > RefundThreshold
  THEN <<Rule("Refund Processed", <<pos.RefundAmount>>)>>
  ELSE <<>>

\* triggered_rules after the four appends
TriggeredRules(vas, pos) ==
  RulePaymentMode(vas, pos) \o RuleBillNotGenerated(vas)
    \o RuleHighDiscount(pos) \o RuleRefund(pos)

\* Mutant of RiskLevel: the "Bill not generated" test comes first.
RiskLevel_BillNotGeneratedFirst(triggered_rules) ==
  IF \E r \in Range(triggered_rules) : SubstringOf("Bill not generated", r)
  THEN "Medium"
  ELSE IF \E r \in Range(triggered_rules) : SubstringOf("Mismatch", r)
  THEN "High"
  ELSE IF triggered_rules # <<>>
  THEN "Medium"
  ELSE "Low"

\* Determine Risk Level (risk_level starts as "Low")
RiskLevel(triggered_rules) ==
  IF \E r \in Range(triggered_rules) : SubstringOf("Mismatch", r)
  THEN "High"
  ELSE IF \E r \in Range(triggered_rules) : SubstringOf("Bill not generated", r)
  THEN "Medium"
  ELSE IF triggered_rules # <<>>
  THEN "Medium"
  ELSE "Low"

\* status, assigned PENDING and then by risk level
StatusOf(risk_level) ==
  IF risk_level = "High" THEN TransactionStatus.FRAUDULENT
  ELSE IF risk_level = "Medium" THEN TransactionStatus.SUSPICIOUS
  ELSE TransactionStatus.GENUINE

\* f"TXN-{vas.SessionId}"
TransactionId(vas) == [prefix |-> "TXN", of |-> vas.SessionId]

\* sep.join(parts)
Join(sep, parts) == [sep |-> sep, parts |-> parts]

\* triggered_rules[0] if triggered_rules else None
FraudCategory(triggered_rules) ==
  IF triggered_rules # <<>> THEN triggered_rules[1] ELSE None

\* Mutant of Notes: only the first rule is written.
Notes_FirstOnly(triggered_rules) ==
  IF triggered_rules # <<>> THEN Join(", ", <<triggered_rules[1]>>) ELSE None

\* ", ".join(triggered_rules) if triggered_rules else None
Notes(triggered_rules) ==
  IF triggered_rules # <<>> THEN Join(", ", triggered_rules) ELSE None

\* The keyword arguments of Transaction(...) in _analyze_pair
PairTransactionKwargs(vas, pos, triggered_rules, risk_level, status) ==
  [id |-> TransactionId(vas),
   shop_id |-> vas.StoreId,
   cam_id |-> vas.CamId,
   pos_id |-> pos.POSId,
   cashier_name |-> pos.CashierName,
   timestamp |-> pos.SessionTime,
   transaction_total |-> pos.TransactionTotal,
   risk_level |-> risk_level,
   triggered_rules |-> triggered_rules,
   status |-> status,
   fraud_category |-> FraudCategory(triggered_rules),
   notes |-> Notes(triggered_rules)]

\* await self.update_callback(type, data): one record handed to the sink
Emit(type, data) == [type |-> type, data |-> data]

\* f"ALT-{uuid.uuid4().hex[:6].upper()}"
AlertId == [prefix |-> "ALT", of |-> "uuid4"]

(***************************************************************************)
(* FraudEngine._create_fraud_alert.  The result lists the records handed   *)
(* to the sink, in order, and tells whether the call raised.               *)
(***************************************************************************)
\* Mutant of DummyTransactionId: the id is formatted from another field.
DummyTransactionId_SessionEnd(vas) == [prefix |-> "TXN", of |-> vas.SessionEnd]

\* transaction_id = f"TXN-{vas.SessionId}" in _create_fraud_alert
DummyTransactionId(vas) == [prefix |-> "TXN", of |-> vas.SessionId]

\* The keyword arguments of Transaction(...) in _create_fraud_alert
DummyTransactionKwargs(vas, rules, risk_level, transaction_id) ==
  [id |-> transaction_id,
   shop_id |-> vas.StoreId,
   cam_id |-> vas.CamId,
   pos_id |-> MappingGet(vas.SellerWindowId, "Unknown"),
   cashier_name |-> "Unknown",
   timestamp |-> vas.SessionEnd,
   transaction_total |-> 0,
   risk_level |-> risk_level,
   triggered_rules |-> rules,
   status |-> TransactionStatus.FRAUDULENT,
   fraud_category |-> rules[1],
   notes |-> Join("; ", rules)]

CreateFraudAlert(vas, pos, rules, risk_level, transaction_id) ==
  LET dummy == transaction_id = None
      tid == IF dummy THEN DummyTransactionId(vas) ELSE transaction_id
      transaction == Transaction(DummyTransactionKwargs(vas, rules, risk_level, tid))
      alert ==
        Alert([id |-> AlertId,
               transaction_id |-> tid,
               shop_id |-> vas.StoreId,
               cashier_name |-> IF pos # None THEN pos.CashierName ELSE "Unknown",
               risk_level |-> risk_level,
               triggered_rules |-> rules,
               timestamp |-> vas.SessionEnd,
               status |-> AlertStatusNew])
      first == IF dummy THEN <<Emit("NEW_TRANSACTION", transaction.obj)>> ELSE <<>>
  IN  IF dummy /\ ~transaction.ok THEN [emits |-> <<>>, raised |-> TRUE]
      ELSE IF ~alert.ok THEN [emits |-> first, raised |-> TRUE]
      ELSE [emits |-> first \o <<Emit("NEW_ALERT", alert.obj)>>, raised |-> FALSE]

(***************************************************************************)
(* FraudEngine._analyze_pair: the values it computes, the records it hands *)
(* to the sink and whether it raised.                                      *)
(***************************************************************************)
AnalyzePair(vas, pos) ==
  LET triggered_rules == TriggeredRules(vas, pos)
      risk_level == RiskLevel(triggered_rules)
      status == StatusOf(risk_level)
      kwargs == PairTransactionKwargs(vas, pos, triggered_rules, risk_level, status)
      transaction == Transaction(kwargs)
      computed == [vas |-> vas, pos |-> pos, triggered_rules |-> triggered_rules,
                   risk_level |-> risk_level, status |-> status, kwargs |-> kwargs]
      first == <<Emit("NEW_TRANSACTION", transaction.obj)>>
      alert == CreateFraudAlert(vas, pos, triggered_rules, risk_level,
                                transaction.obj.id)
  IN  IF ~transaction.ok
      THEN computed @@ [emits |-> <<>>, raised |-> TRUE]
      ELSE IF risk_level \in {"High", "Medium"}
      THEN computed @@ [emits |-> first \o alert.emits, raised |-> alert.raised]
      ELSE computed @@ [emits |-> first, raised |-> FALSE]

(***************************************************************************)
(* The pending buffers and the timer tasks.                                *)
(***************************************************************************)
EmptyDict == [k \in {} |-> None]

\* d[k] = v
DictSet(d, k, v) == [x \in (DOMAIN d) \cup {k} |-> IF x = k THEN v ELSE d[x]]

\* Mutant of DictDel: the whole dict is emptied.
DictDel_Clear(d, k) == EmptyDict

\* del d[k]
DictDel(d, k) == [x \in (DOMAIN d) \ {k} |-> d[x]]

\* Mutant of PopPos: the bill is read and left in the dict.
PopPos_Keep(pending, pos_key) == pending

\* self.pending_pos.pop(pos_key): the dict afterwards
PopPos(pending, pos_key) == DictDel(pending, pos_key)

\* Mutant of PopVas: the session is read and left in the dict.
PopVas_Keep(pending, seller_window_id) == pending

\* self.pending_vas.pop(expected_seller_window_id): the dict afterwards
PopVas(pending, seller_window_id) == DictDel(pending, seller_window_id)

\* self.pending_vas[seller_window_id] = event
PutVas(pending, seller_window_id, event) == DictSet(pending, seller_window_id, event)

\* Mutant of PutPos: the bill is not stored.
PutPos_Drop(pending, pos_key, event) == pending

\* self.pending_pos[pos_key] = event
PutPos(pending, pos_key, event) == DictSet(pending, pos_key, event)

\* asyncio.create_task(self._check_timeout(seller_window_id, event)): the task
\* sleeps 120 and then runs its check.
TimeoutTask(seller_window_id, event, t) ==
  [fn |-> "_check_timeout", key |-> seller_window_id, event |-> event,
   due |-> t + SessionTimeout]

\* Mutant of CleanupTask: the task is given the terminal id alone as its key,
\* the key format pending_pos had before it was scoped by store.
CleanupTask_TerminalKey(pos_key, event, t) ==
  [fn |-> "_cleanup_pos", key |-> <<pos_key[2]>>, event |-> event,
   due |-> t + PosCleanupDelay]

\* asyncio.create_task(self._cleanup_pos(pos_key)): the second definition of
\* _cleanup_pos is the method of the class; it sleeps 150.  The task does not
\* hold the bill: `event` only records which bill it was created for.
CleanupTask(pos_key, event, t) ==
  [fn |-> "_cleanup_pos", key |-> pos_key, event |-> event,
   due |-> t + PosCleanupDelay]

\* Mutant of StillPending: the stored event is not compared with the timer's.
StillPending_KeyOnly(pending, seller_window_id, vas_event) ==
  seller_window_id \in DOMAIN pending

\* _check_timeout: seller_window_id in self.pending_vas and
\* self.pending_vas[seller_window_id] == vas_event
StillPending(pending, seller_window_id, vas_event) ==
  seller_window_id \in DOMAIN pending /\ pending[seller_window_id] = vas_event

\* Mutant of CleanupPosStore: the del is missing.
CleanupPosStore_Keep(pending, pos_key) == pending

\* _cleanup_pos after its sleep: the dict afterwards
CleanupPosStore(pending, pos_key) ==
  IF pos_key \in DOMAIN pending THEN DictDel(pending, pos_key) ELSE pending

\* The rule list of the one-sided case
MissingRules ==
  <<Rule("Corresponding object is not present in VAS for POS and vise versa", <<>>)>>

\* stream_consumer awaits the handler without a try: an exception raised by
\* the handler ends the task, and no further event is consumed.
ConsumerAfter(raised) == IF raised THEN "failed" ELSE "running"

(***************************************************************************)
(* Events the stream delivers.  SessionId is unique per session            *)
(* (generate_scenario derives it from the time in milliseconds).           *)
(***************************************************************************)
\* Sessions of two lanes of the simulator that share the terminal id POS-01
\* in two stores.
VasInputKinds ==
  {<<"STR001", "Cash", TRUE>>, <<"STR001", "Cash", FALSE>>,
   <<"STR001", "Card", TRUE>>, <<"STR002", "Cash", TRUE>>}

VasInputs(n, t) ==
  {VASEvent([StoreId |-> k[1], CamId |-> "CAM-01",
             SellerWindowId |-> SellerWindowId(k[1], "CAM-01", "W1"),
             SessionId |-> n, SessionEnd |-> t,
             ModeOfTransaction |-> k[2], ReceiptGenerationStatus |-> k[3]]) :
     k \in VasInputKinds}

\* Bills of the same two lanes.
PosInputKinds == {<<"STR001", "POS-01">>, <<"STR002", "POS-01">>}

PosInputs(n, t) ==
  {POSEvent([StoreId |-> k[1], CashierName |-> "Sarah Johnson", POSId |-> k[2],
             SessionTime |-> t, ModeOfTransaction |-> "Cash",
             TransactionTotal |-> 100, DiscountPercent |-> 25,
             RefundAmount |-> 0, uid |-> n]) :
     k \in PosInputKinds}

(***************************************************************************)
(* History kept for stating the properties: every delivery, every pair     *)
(* handed to _analyze_pair, every timer task that has run, and every       *)
(* record handed to the sink together with the events it was built from.   *)
(***************************************************************************)
Arrival(stream, event, outcome) ==
  [stream |-> stream, event |-> event, at |-> now, outcome |-> outcome]

Tag(emits, vas, pos) ==
  [i \in DOMAIN emits |->
     emits[i] @@ [vas |-> vas.SessionId, pos |-> IF pos # None THEN pos.uid ELSE 0]]

\* A timer task that has run: the entry it found under its key, whether it
\* changed the buffer, and what it handed to the sink.
Firing(task, before, after, r) ==
  [task |-> task,
   found |-> IF task.key \in DOMAIN before THEN before[task.key] ELSE None,
   removed |-> after # before,
   emitted |-> Len(r.emits),
   raised |-> r.raised]

(***************************************************************************)
(* FraudEngine.process_vas, called by stream_consumer                      *)
(***************************************************************************)
ProcessVas(event) ==
  LET seller_window_id == event.SellerWindowId
      expected_pos_id == MappingGet(seller_window_id, NoneStr)
      pos_key == PosKey(event.StoreId, expected_pos_id)
  IN  /\ consumer = "running"
      /\ delivered < MaxEvents
      /\ delivered' = delivered + 1
      /\ IF expected_pos_id = NoneStr
         THEN /\ arrivals' = Append(arrivals, Arrival("VAS", event, "discarded"))
              /\ UNCHANGED <<pending_vas, pending_pos, tasks, consumer, analyzed, sink>>
         ELSE IF pos_key \in DOMAIN pending_pos
         THEN LET pos_event == pending_pos[pos_key]
                  r == AnalyzePair(event, pos_event)
              IN  /\ pending_pos' = PopPos(pending_pos, pos_key)
                  /\ analyzed' = Append(analyzed, r)
                  /\ sink' = sink \o Tag(r.emits, event, pos_event)
                  /\ consumer' = ConsumerAfter(r.raised)
                  /\ arrivals' = Append(arrivals, Arrival("VAS", event, "matched"))
                  /\ UNCHANGED <<pending_vas, tasks>>
         ELSE /\ pending_vas' = PutVas(pending_vas, seller_window_id, event)
              /\ tasks' = tasks \cup {TimeoutTask(seller_window_id, event, now)}
              /\ arrivals' = Append(arrivals, Arrival("VAS", event, "buffered"))
              /\ UNCHANGED <<pending_pos, consumer, analyzed, sink>>
      /\ UNCHANGED <<now, fired>>
      /\ UNCHANGED rule_vars

(***************************************************************************)
(* FraudEngine.process_pos, called by stream_consumer                      *)
(***************************************************************************)
ProcessPos(event) ==
  LET pos_id == event.POSId
      store_id == event.StoreId
      known == pos_id \in DOMAIN pos_config
      expected_seller_window_id ==
        SellerWindowId(store_id, pos_config[pos_id][1], pos_config[pos_id][2])
      pos_key == PosKey(store_id, pos_id)
  IN  /\ consumer = "running"
      /\ delivered < MaxEvents
      /\ delivered' = delivered + 1
      /\ IF ~known
         THEN /\ arrivals' = Append(arrivals, Arrival("POS", event, "discarded"))
              /\ UNCHANGED <<pending_vas, pending_pos, tasks, consumer, analyzed, sink>>
         ELSE IF expected_seller_window_id \in DOMAIN pending_vas
         THEN LET vas_event == pending_vas[expected_seller_window_id]
                  r == AnalyzePair(vas_event, event)
              IN  /\ pending_vas' = PopVas(pending_vas, expected_seller_window_id)
                  /\ analyzed' = Append(analyzed, r)
                  /\ sink' = sink \o Tag(r.emits, vas_event, event)
                  /\ consumer' = ConsumerAfter(r.raised)
                  /\ arrivals' = Append(arrivals, Arrival("POS", event, "matched"))
                  /\ UNCHANGED <<pending_pos, tasks>>
         ELSE /\ pending_pos' = PutPos(pending_pos, pos_key, event)
              /\ tasks' = tasks \cup {CleanupTask(pos_key, event, now)}
              /\ arrivals' = Append(arrivals, Arrival("POS", event, "buffered"))
              /\ UNCHANGED <<pending_vas, consumer, analyzed, sink>>
      /\ UNCHANGED <<now, fired>>
      /\ UNCHANGED rule_vars

(***************************************************************************)
(* FraudEngine._check_timeout, after its sleep                             *)
(***************************************************************************)
CheckTimeout(task) ==
  LET seller_window_id == task.key
      vas_event == task.event
      expires == StillPending(pending_vas, seller_window_id, vas_event)
      r == IF expires /\ vas_event.ReceiptGenerationStatus
           THEN CreateFraudAlert(vas_event, None, MissingRules, "High", None)
           ELSE [emits |-> <<>>, raised |-> FALSE]
  IN  /\ task \in tasks
      /\ task.fn = "_check_timeout"
      /\ task.due <= now
      /\ tasks' = tasks \ {task}
      /\ pending_vas' = IF expires THEN DictDel(pending_vas, seller_window_id)
                        ELSE pending_vas
      /\ sink' = sink \o Tag(r.emits, vas_event, None)
      /\ fired' = fired \cup {Firing(task, pending_vas, pending_vas', r)}
      /\ UNCHANGED <<pending_pos, now, consumer, delivered, arrivals, analyzed>>
      /\ UNCHANGED rule_vars

(***************************************************************************)
(* FraudEngine._cleanup_pos, after its sleep                               *)
(***************************************************************************)
CleanupPos(task) ==
  LET pos_key == task.key
  IN  /\ task \in tasks
      /\ task.fn = "_cleanup_pos"
      /\ task.due <= now
      /\ tasks' = tasks \ {task}
      /\ pending_pos' = CleanupPosStore(pending_pos, pos_key)
      /\ fired' = fired \cup {Firing(task, pending_pos, pending_pos',
                                      [emits |-> <<>>, raised |-> FALSE])}
      /\ UNCHANGED <<pending_vas, now, consumer, delivered, arrivals, analyzed, sink>>
      /\ UNCHANGED rule_vars

(***************************************************************************)
(* Time passes.  A task whose sleep is over runs before time passes        *)
(* further.                                                                *)
(***************************************************************************)
Tick ==
  /\ now < MaxTicks * Quantum
  /\ \A task \in tasks : task.due > now
  /\ now' = now + Quantum
  /\ UNCHANGED <<pending_vas, pending_pos, tasks, consumer, delivered,
                 arrivals, analyzed, fired, sink>>
  /\ UNCHANGED rule_vars

Init ==
  /\ pending_vas = EmptyDict
  /\ pending_pos = EmptyDict
  /\ tasks = {}
  /\ now = 0
  /\ consumer = "running"
  /\ delivered = 0
  /\ arrivals = <<>>
  /\ analyzed = <<>>
  /\ fired = {}
  /\ sink = <<>>
  /\ rule_vas = None
  /\ rule_pos_kw = None
  /\ rule_result = None

Next ==
  \/ \E event \in VasInputs(delivered + 1, now) : ProcessVas(event)
  \/ \E event \in PosInputs(delivered + 1, now) : ProcessPos(event)
  \/ \E task \in tasks : CheckTimeout(task)
  \/ \E task \in tasks : CleanupPos(task)
  \/ Tick

Spec == Init /\ [][Next]_vars

(***************************************************************************)
(* Rule evaluation on its own: _analyze_pair applied to one session and    *)
(* one bill.  The bill is built by POSEvent(...) from the keyword          *)
(* arguments generate_scenario passes.                                     *)
(***************************************************************************)
RuleVasInputs ==
  {VASEvent([StoreId |-> "STR001", CamId |-> "CAM-01",
             SellerWindowId |-> SellerWindowId("STR001", "CAM-01", "W1"),
             SessionId |-> 1, SessionEnd |-> 0,
             ModeOfTransaction |-> m, ReceiptGenerationStatus |-> r]) :
     m \in TransactionMode, r \in BOOLEAN}

RulePosKwargs ==
  {[StoreId |-> "STR001", CashierName |-> "Sarah Johnson", POSId |-> "POS-01",
    SessionTime |-> 0, ModeOfTransaction |-> m, TransactionTotal |-> 100,
    DiscountPercent |-> d, RefundAmount |-> a, uid |-> 2] :
     m \in TransactionMode, d \in {0, 20, 21, 25}, a \in {0, 10}}

InitRules ==
  /\ pending_vas = EmptyDict
  /\ pending_pos = EmptyDict
  /\ tasks = {}
  /\ now = 0
  /\ consumer = "running"
  /\ delivered = 0
  /\ arrivals = <<>>
  /\ analyzed = <<>>
  /\ fired = {}
  /\ sink = <<>>
  /\ rule_vas \in RuleVasInputs
  /\ rule_pos_kw \in RulePosKwargs
  /\ rule_result = None

Evaluate ==
  /\ rule_result = None
  /\ rule_result' = AnalyzePair(rule_vas, POSEvent(rule_pos_kw))
  /\ UNCHANGED <<rule_vas, rule_pos_kw>>
  /\ UNCHANGED engine_vars

NextRules == Evaluate

SpecRules == InitRules /\ [][NextRules]_vars

(***************************************************************************)
(* Properties of the correlator (checked under Spec).                      *)
(***************************************************************************)
\* The number of records of one type handed to the sink for a session and a
\* bill (bill 0: built without a bill).
SinkCount(type, session_id, bill_uid) ==
  Cardinality({i \in DOMAIN sink :
                 /\ sink[i].type = type
                 /\ sink[i].vas = session_id
                 /\ sink[i].pos = bill_uid})

\* The lane table maps the session and the bill to the same lane.
SameLane(S, B) ==
  /\ S.SellerWindowId \in DOMAIN mapping
  /\ mapping[S.SellerWindowId] = B.POSId
  /\ S.StoreId = B.StoreId

\* When the expiry timer of a buffered arrival fires.
ExpiryOf(a) == a.at + (IF a.stream = "VAS" THEN 120 ELSE 150)

\* The event took part in a pair handed to _analyze_pair.
Matched(event) ==
  \E i \in DOMAIN analyzed : analyzed[i].vas = event \/ analyzed[i].pos = event

\* C1: a session S and a bill B of the same lane, delivered in either order,
\* the second before the expiry timer of the first fires, give exactly one
\* matched Transaction for S built from B, and no no-bill Transaction for S.
C1_ExactlyOneMatchedTransaction ==
  \A i, j \in DOMAIN arrivals :
    LET first == arrivals[i]
        second == arrivals[j]
        S == IF first.stream = "VAS" THEN first.event ELSE second.event
        B == IF first.stream = "VAS" THEN second.event ELSE first.event
    IN  (/\ i < j
         /\ first.stream # second.stream
         /\ SameLane(S, B)
         /\ second.at < ExpiryOf(first))
        => /\ SinkCount("NEW_TRANSACTION", S.SessionId, B.uid) = 1
           /\ SinkCount("NEW_TRANSACTION", S.SessionId, 0) = 0

\* C2: a buffered session still waiting when its timer fires (no bill of its
\* lane came within 120) gives exactly one Transaction (Fraudulent, one rule,
\* no bill) and exactly one Alert if its receipt was generated, and nothing
\* if it was not.
C2_ExpiredSessionIsReported ==
  \A f \in fired :
    (f.task.fn = "_check_timeout" /\ f.found = f.task.event) =>
      LET vas == f.task.event
          txns == {i \in DOMAIN sink :
                     sink[i].type = "NEW_TRANSACTION" /\ sink[i].vas = vas.SessionId}
          alerts == {i \in DOMAIN sink :
                       sink[i].type = "NEW_ALERT" /\ sink[i].vas = vas.SessionId}
      IN  IF vas.ReceiptGenerationStatus
          THEN /\ Cardinality(txns) = 1
               /\ Cardinality(alerts) = 1
               /\ \A i \in txns :
                    /\ sink[i].pos = 0
                    /\ sink[i].data.status = "fraudulent"
                    /\ Len(sink[i].data.notes.parts) = 1
          ELSE txns = {} /\ alerts = {}

\* C3: once the timer of a buffered bill that no session took has fired, the
\* bill is not in the bill buffer, the timer task handed nothing to the sink,
\* and no Transaction or Alert built from the bill is in the sink.
C3_ExpiredBillIsDroppedSilently ==
  \A f \in fired :
    (f.task.fn = "_cleanup_pos" /\ ~Matched(f.task.event)) =>
      /\ \A k \in DOMAIN pending_pos : pending_pos[k] # f.task.event
      /\ f.emitted = 0
      /\ \A i \in DOMAIN sink : sink[i].pos # f.task.event.uid

\* C3 witness: the timer of a bill has fired, found its own bill still
\* buffered and removed it.
C3_Witness ==
  \E f \in fired :
    /\ f.task.fn = "_cleanup_pos"
    /\ f.found = f.task.event
    /\ f.removed
    /\ ~Matched(f.task.event)

\* C4: no session and no bill takes part in two pairs, and an event that a
\* match has popped is in neither buffer afterwards, so no later pop returns
\* it.
C4_MatchIsExactlyOnce ==
  /\ \A i, j \in DOMAIN analyzed :
       i # j => /\ analyzed[i].vas # analyzed[j].vas
                /\ analyzed[i].pos # analyzed[j].pos
  /\ \A i \in DOMAIN analyzed :
       /\ \A k \in DOMAIN pending_vas : pending_vas[k] # analyzed[i].vas
       /\ \A k \in DOMAIN pending_pos : pending_pos[k] # analyzed[i].pos

\* C4 witness: a buffered bill has been popped by a match while another
\* event is still buffered.
C4_Witness ==
  /\ \E i \in DOMAIN analyzed, j \in DOMAIN arrivals :
       /\ arrivals[j].event = analyzed[i].pos
       /\ arrivals[j].outcome = "buffered"
  /\ DOMAIN pending_vas # {}

\* C5: the expiry timer of an event that a match has consumed changes
\* neither buffer and hands nothing to the sink when it fires; and no session
\* has both a matched Transaction and a no-bill Transaction.
C5_TimerOfMatchedEventIsNoOp ==
  /\ \A f \in fired :
       Matched(f.task.event) => ~f.removed /\ f.emitted = 0 /\ ~f.raised
  /\ \A i, j \in DOMAIN sink :
       ~(/\ sink[i].type = "NEW_TRANSACTION"
         /\ sink[j].type = "NEW_TRANSACTION"
         /\ sink[i].vas = sink[j].vas
         /\ sink[i].pos # 0
         /\ sink[j].pos = 0)

\* C5 witness: the timer of a session that a bill has matched has fired.
C5_Witness ==
  \E f \in fired :
    /\ f.task.fn = "_check_timeout"
    /\ Matched(f.task.event)
    /\ f.found = None

\* C7: every matched pair has exactly one Transaction in the sink, and one
\* Alert exactly when its risk level is Medium or High.
C7_TransactionForEveryPair ==
  \A i \in DOMAIN analyzed :
    LET p == analyzed[i]
    IN  /\ SinkCount("NEW_TRANSACTION", p.vas.SessionId, p.pos.uid) = 1
        /\ SinkCount("NEW_ALERT", p.vas.SessionId, p.pos.uid)
             = IF p.risk_level \in {"Medium", "High"} THEN 1 ELSE 0

(***************************************************************************)
(* Properties of rule evaluation (checked under SpecRules).                *)
(***************************************************************************)
RuleTexts(rules) == [i \in DOMAIN rules |-> rules[i].text]

\* The rules of the table whose condition holds for a session and the bill
\* data, in the fixed order.
ApplicableRuleTexts(vas, bill) ==
  (IF vas.ModeOfTransaction # bill.ModeOfTransaction
   THEN <<"Payment Mode Mismatch">> ELSE <<>>)
  \o (IF ~vas.ReceiptGenerationStatus
      THEN <<"Bill not generated in VAS">> ELSE <<>>)
  \o (IF bill.DiscountPercent > 20 THEN <<"High Discount">> ELSE <<>>)
  \o (IF bill.RefundAmount > 0 THEN <<"Refund Processed">> ELSE <<>>)

\* C8: the triggered rules of a pair are exactly the rules whose condition
\* holds, in the fixed order; a bill with discount 25, equal payment modes, a
\* generated receipt and no refund gives [high discount], Medium, Suspicious
\* and one Alert.
C8_EveryApplicableRuleFires ==
  rule_result # None =>
    /\ RuleTexts(rule_result.triggered_rules)
         = ApplicableRuleTexts(rule_vas, rule_pos_kw)
    /\ (/\ rule_pos_kw.DiscountPercent = 25
        /\ rule_pos_kw.RefundAmount = 0
        /\ rule_pos_kw.ModeOfTransaction = rule_vas.ModeOfTransaction
        /\ rule_vas.ReceiptGenerationStatus)
       => /\ RuleTexts(rule_result.triggered_rules) = <<"High Discount">>
          /\ rule_result.risk_level = "Medium"
          /\ rule_result.status = "suspicious"
          /\ Cardinality({i \in DOMAIN rule_result.emits :
                            rule_result.emits[i].type = "NEW_ALERT"}) = 1

\* C9: the risk level _analyze_pair computes is High if the payment mode
\* mismatch rule fired, else Medium if any rule fired, else Low; the status
\* it computes and passes to Transaction(...) is Fraudulent for High,
\* Suspicious for Medium, Genuine for Low, and never Pending.
C9_RiskIsHighestSeverity ==
  rule_result # None =>
    LET rules == rule_result.triggered_rules
        expected == IF "Payment Mode Mismatch" \in Range(RuleTexts(rules))
                    THEN "High"
                    ELSE IF rules # <<>> THEN "Medium" ELSE "Low"
    IN  /\ rule_result.risk_level = expected
        /\ rule_result.kwargs.risk_level = expected
        /\ rule_result.status = (CASE expected = "High" -> "fraudulent"
                                   [] expected = "Medium" -> "suspicious"
                                   [] expected = "Low" -> "genuine")
        /\ rule_result.kwargs.status = rule_result.status
        /\ rule_result.status # "pending"

\* C9 witness: a pair for which the High rule and a Medium rule both fired
\* has been evaluated.
C9_Witness ==
  /\ rule_result # None
  /\ RuleTexts(rule_result.triggered_rules)
       = <<"Payment Mode Mismatch", "Bill not generated in VAS">>
  /\ rule_result.status = "fraudulent"

\* The pair with any of the Medium conditions additionally made true.
MediumVariants(vas, bill) ==
  {<<[vas EXCEPT !.ReceiptGenerationStatus = r],
     [bill EXCEPT !.DiscountPercent = d, !.RefundAmount = a]>> :
     r \in {vas.ReceiptGenerationStatus, FALSE},
     d \in {bill.DiscountPercent, 25},
     a \in {bill.RefundAmount, 10}}

\* C10: for a pair that triggers the High rule, making any Medium condition
\* true as well leaves the risk level High; and the fraud_category passed to
\* Transaction(...) is the first triggered rule while the notes hold every
\* triggered rule (both None when no rule fired).
C10_MonotonicAndNotesComplete ==
  rule_result # None =>
    LET rules == rule_result.triggered_rules
    IN  /\ "Payment Mode Mismatch" \in Range(RuleTexts(rules)) =>
             \A v \in MediumVariants(rule_vas, rule_pos_kw) :
               AnalyzePair(v[1], POSEvent(v[2])).risk_level = "High"
        /\ rules # <<>> =>
             /\ rule_result.kwargs.fraud_category = rules[1]
             /\ Range(rules) \subseteq Range(rule_result.kwargs.notes.parts)
        /\ rules = <<>> =>
             /\ rule_result.kwargs.fraud_category = None
             /\ rule_result.kwargs.notes = None

\* C10 witness: a High pair whose receipt was generated has been evaluated,
\* and its variant without a receipt triggers two rules.
C10_Witness ==
  /\ rule_result # None
  /\ rule_result.risk_level = "High"
  /\ rule_vas.ReceiptGenerationStatus
  /\ \E v \in MediumVariants(rule_vas, rule_pos_kw) :
       Len(AnalyzePair(v[1], POSEvent(v[2])).kwargs.notes.parts) = 2

VasConfigInputs(n, t) ==
  {VASEvent([StoreId |-> "STR001", CamId |-> "CAM-01",
             SellerWindowId |-> SellerWindowId("STR001", "CAM-01", w),
             SessionId |-> n, SessionEnd |-> t,
             ModeOfTransaction |-> "Cash", ReceiptGenerationStatus |-> TRUE]) :
     w \in {"W1", "W9"}}

PosConfigInputs(n, t) ==
  {POSEvent([StoreId |-> k[1], CashierName |-> "Sarah Johnson", POSId |-> k[2],
             SessionTime |-> t, ModeOfTransaction |-> "Cash",
             TransactionTotal |-> 100, DiscountPercent |-> 0,
             RefundAmount |-> 0, uid |-> n]) :
     k \in {<<"STR001", "POS-01">>, <<"STR009", "POS-01">>,
            <<"STR001", "POS-09">>}}

NextConfig ==
  \/ \E event \in VasConfigInputs(delivered + 1, now) : ProcessVas(event)
  \/ \E event \in PosConfigInputs(delivered + 1, now) : ProcessPos(event)
  \/ \E task \in tasks : CheckTimeout(task)
  \/ \E task \in tasks : CleanupPos(task)
  \/ Tick

SpecConfig == Init /\ [][NextConfig]_vars

\* The lane table does not hold the session's window identity.
SessionConfigMiss(S) == S.SellerWindowId \notin DOMAIN mapping

\* The bill's store or its terminal is not configured.
BillConfigMiss(B) ==
  \/ B.StoreId \notin stores
  \/ B.POSId \notin DOMAIN pos_config

\* C12: an event that misses the lane table is discarded: its delivery
\* buffers nothing, no timer task is created for it, and it is in no pair.
C12_ConfigMissIsDiscarded ==
  /\ \A i \in DOMAIN arrivals :
       LET a == arrivals[i]
       IN  (IF a.stream = "VAS" THEN SessionConfigMiss(a.event)
            ELSE BillConfigMiss(a.event)) => a.outcome = "discarded"
  /\ \A k \in DOMAIN pending_vas : ~SessionConfigMiss(pending_vas[k])
  /\ \A k \in DOMAIN pending_pos : ~BillConfigMiss(pending_pos[k])
  /\ \A task \in tasks :
       IF task.fn = "_check_timeout" THEN ~SessionConfigMiss(task.event)
       ELSE ~BillConfigMiss(task.event)

\* C14: a pair whose evaluation raised concerns that pair alone: the
\* consumer that delivers the events to the correlator is still running, so
\* later events are still delivered.
C14_FailureStopsNothing ==
  \A i \in DOMAIN analyzed : analyzed[i].raised => consumer = "running"

\* C15: with empty buffers, a session S and a bill B of the same lane, the
\* second delivered before the expiry timer of the first fires, have the
\* same outcome in either order of arrival: the first is buffered, the second
\* is matched with it, the one evaluation made is that of the pair (S, B),
\* and afterwards neither buffer holds S or B.
C15_OutcomeIndependentOfOrder ==
  Len(arrivals) >= 2 =>
    LET first == arrivals[1]
        second == arrivals[2]
        S == IF first.stream = "VAS" THEN first.event ELSE second.event
        B == IF first.stream = "VAS" THEN second.event ELSE first.event
    IN  (/\ first.stream # second.stream
         /\ SameLane(S, B)
         /\ second.at < ExpiryOf(first))
        => /\ first.outcome = "buffered"
           /\ second.outcome = "matched"
           /\ analyzed = <<AnalyzePair(S, B)>>
           /\ S \notin Range(pending_vas)
           /\ B \notin Range(pending_pos)

\* C15 witness: the bill arrived first, the session of its lane arrived
\* later within the bill's window, and the pair was evaluated.
C15_Witness ==
  /\ Len(arrivals) >= 2
  /\ arrivals[1].stream = "POS"
  /\ arrivals[2].stream = "VAS"
  /\ SameLane(arrivals[2].event, arrivals[1].event)
  /\ arrivals[1].at < arrivals[2].at
  /\ arrivals[2].at < ExpiryOf(arrivals[1])
  /\ Len(analyzed) = 1
  /\ analyzed[1].pos = arrivals[1].event

\* C16: every pair handed to _analyze_pair is of one lane of the lane table:
\* the session and the bill carry the same store, and the bill's terminal is
\* the one the table assigns to the session's window identity.
C16_MatchedPairIsOfOneLane ==
  \A i \in DOMAIN analyzed : SameLane(analyzed[i].vas, analyzed[i].pos)

\* C16 witness: a pair was matched while a bill of another store with the
\* same terminal id was buffered, and that bill is still buffered.
C16_Witness ==
  /\ Len(analyzed) = 1
  /\ \E k \in DOMAIN pending_pos :
       /\ pending_pos[k].POSId = analyzed[1].pos.POSId
       /\ pending_pos[k].StoreId # analyzed[1].vas.StoreId
       /\ \E a \in Range(arrivals) :
            /\ a.event = pending_pos[k]
            /\ \E b \in Range(arrivals) :
                 b.event = analyzed[1].vas /\ a.at <= b.at

\* C17: a session timer that finds under its key anything but the session
\* it was created for changes nothing and reports nothing: it removes the
\* entry, and goes on to report the session, only when the stored event is
\* its own.
C17_SessionTimerActsOnItsOwnEventOnly ==
  \A f \in fired :
    (f.task.fn = "_check_timeout" /\ f.found # f.task.event)
    => (~f.removed /\ f.emitted = 0 /\ ~f.raised)

\* C17 witness: the timer of an older session has run while a newer session
\* was stored under the same window key, and the newer session is still there.
C17_Witness ==
  \E f \in fired :
    /\ f.task.fn = "_check_timeout"
    /\ f.found # None
    /\ f.found # f.task.event
    /\ f.task.key \in DOMAIN pending_vas
    /\ pending_vas[f.task.key] = f.found

\* C18: a bill timer that finds under its key a newer bill, one whose own
\* 150 units have not elapsed, leaves the buffer as it is.
C18_BillTimerActsOnItsOwnEventOnly ==
  \A f \in fired :
    (/\ f.task.fn = "_cleanup_pos"
     /\ f.found # f.task.event
     /\ \E a \in Range(arrivals) :
          a.event = f.found /\ ExpiryOf(a) > f.task.due)
    => ~f.removed

\* The buffer key of a delivered event.
KeyOf(a) ==
  IF a.stream = "VAS" THEN a.event.SellerWindowId
  ELSE PosKey(a.event.StoreId, a.event.POSId)

\* The deliveries are a session and a bill of one lane.
Counterparts(a, b) ==
  /\ a.stream # b.stream
  /\ IF a.stream = "VAS" THEN SameLane(a.event, b.event)
     ELSE SameLane(b.event, a.event)

\* Delivery j buffered an event under the key where the event of the earlier
\* delivery i was still waiting.
Replaces(j, i) ==
  /\ i < j
  /\ arrivals[i].stream = arrivals[j].stream
  /\ KeyOf(arrivals[i]) = KeyOf(arrivals[j])
  /\ arrivals[i].outcome = "buffered"
  /\ arrivals[j].outcome = "buffered"
  /\ arrivals[j].at < ExpiryOf(arrivals[i])
  /\ \A m \in DOMAIN arrivals :
       (i < m /\ m < j) => ~Counterparts(arrivals[i], arrivals[m])

\* C19: when a delivery replaces a waiting event under its key, the replaced
\* event is in no buffer, in no pair and in no record of the sink, and the
\* next counterpart of the lane, delivered before the expiry timer of the new
\* event fires, is matched with the new event.
C19_LastWriterWins ==
  \A i, j \in DOMAIN arrivals :
    Replaces(j, i) =>
      LET old == arrivals[i]
          new == arrivals[j]
      IN  /\ old.event \notin Range(pending_vas) \cup Range(pending_pos)
          /\ ~Matched(old.event)
          /\ \A r \in Range(sink) :
               IF old.stream = "VAS" THEN r.vas # old.event.SessionId
               ELSE r.pos # old.event.uid
          /\ \A k \in DOMAIN arrivals :
               (/\ j < k
                /\ Counterparts(new, arrivals[k])
                /\ arrivals[k].at < ExpiryOf(new)
                /\ \A m \in DOMAIN arrivals :
                     (j < m /\ m < k) =>
                       /\ ~Counterparts(new, arrivals[m])
                       /\ ~(arrivals[m].stream = new.stream
                            /\ KeyOf(arrivals[m]) = KeyOf(new)))
               => /\ arrivals[k].outcome = "matched"
                  /\ \E n \in DOMAIN analyzed :
                       IF new.stream = "VAS"
                       THEN /\ analyzed[n].vas = new.event
                            /\ analyzed[n].pos = arrivals[k].event
                       ELSE /\ analyzed[n].pos = new.event
                            /\ analyzed[n].vas = arrivals[k].event

(***************************************************************************)
(* The correlator with the scheduling of the event loop: time passes, and  *)
(* a task whose sleep is over is run.  Deliveries are under no obligation  *)
(* to happen.  After the last instant at which events are delivered, time  *)
(* goes on for as long as a timer task is sleeping.                        *)
(***************************************************************************)
VasFairInputs(n, t) ==
  {VASEvent([StoreId |-> "STR001", CamId |-> "CAM-01",
             SellerWindowId |-> SellerWindowId("STR001", "CAM-01", "W1"),
             SessionId |-> n, SessionEnd |-> t,
             ModeOfTransaction |-> "Cash", ReceiptGenerationStatus |-> r]) :
     r \in BOOLEAN}

PosFairInputs(n, t) ==
  {POSEvent([StoreId |-> "STR001", CashierName |-> "Sarah Johnson",
             POSId |-> "POS-01", SessionTime |-> t,
             ModeOfTransaction |-> "Cash", TransactionTotal |-> 100,
             DiscountPercent |-> 0, RefundAmount |-> 0, uid |-> n])}

Drain ==
  /\ now >= MaxTicks * Quantum
  /\ tasks # {}
  /\ \A task \in tasks : task.due > now
  /\ now' = now + Quantum
  /\ UNCHANGED <<pending_vas, pending_pos, tasks, consumer, delivered,
                 arrivals, analyzed, fired, sink>>
  /\ UNCHANGED rule_vars

NextFair ==
  \/ \E event \in VasFairInputs(delivered + 1, now) : ProcessVas(event)
  \/ \E event \in PosFairInputs(delivered + 1, now) : ProcessPos(event)
  \/ \E task \in tasks : CheckTimeout(task)
  \/ \E task \in tasks : CleanupPos(task)
  \/ Tick
  \/ Drain

SpecFair ==
  /\ Init
  /\ [][NextFair]_vars
  /\ WF_vars(Tick)
  /\ WF_vars(Drain)
  /\ WF_vars(\E task \in tasks : CheckTimeout(task))
  /\ WF_vars(\E task \in tasks : CleanupPos(task))

\* C20: once the timer task of a buffered event has run, the event is in no
\* buffer; and when deliveries have stopped and the timer tasks run, both
\* buffers become empty and stay empty.
C20_NoEventOutlivesItsWindow ==
  /\ [](\A f \in fired :
          f.task.event \notin Range(pending_vas) \cup Range(pending_pos))
  /\ <>[](pending_vas = EmptyDict /\ pending_pos = EmptyDict)

\* C20 witness: a session and a bill were buffered, each waited out its
\* window, the timer task of each removed it, and both buffers are empty.
C20_Witness ==
  /\ \E f \in fired :
       f.task.fn = "_check_timeout" /\ f.found = f.task.event /\ f.removed
  /\ \E f \in fired :
       f.task.fn = "_cleanup_pos" /\ f.found = f.task.event /\ f.removed
  /\ pending_vas = EmptyDict
  /\ pending_pos = EmptyDict
  /\ tasks = {}

\* C21: for every store and every lane of the lane table, the buffers never
\* hold at the same time a session under the lane's window key and a bill
\* under the lane's (store, terminal) key.  The sessions delivered carry the
\* window identity derived from their own store, camera and window.
C21_LaneNeverHoldsBoth ==
  \A s \in stores, l \in lanes :
    ~(/\ SellerWindowId(s, l.cam_id, l.window_id) \in DOMAIN pending_vas
      /\ PosKey(s, l.pos_id) \in DOMAIN pending_pos)

\* C21 witness: a session of one lane and a bill of another lane with the
\* same terminal id are buffered at the same time, the session delivered
\* after the bill.
C21_Witness ==
  \E w \in DOMAIN pending_vas, k \in DOMAIN pending_pos :
    /\ mapping[w] = pending_pos[k].POSId
    /\ pending_vas[w].StoreId # pending_pos[k].StoreId
    /\ pending_vas[w].SessionId > pending_pos[k].uid

\* What the two buffers hold for the lane l of the store s.
LaneEntries(vas, pos, s, l) ==
  <<IF SellerWindowId(s, l.cam_id, l.window_id) \in DOMAIN vas
    THEN vas[SellerWindowId(s, l.cam_id, l.window_id)] ELSE None,
    IF PosKey(s, l.pos_id) \in DOMAIN pos
    THEN pos[PosKey(s, l.pos_id)] ELSE None>>

\* The event is of the lane l of the store s.
SessionOfLane(S, s, l) == S.SellerWindowId = SellerWindowId(s, l.cam_id, l.window_id)

BillOfLane(B, s, l) == B.StoreId = s /\ B.POSId = l.pos_id

\* The timer task was created for the lane l of the store s.
TaskOfLane(task, s, l) ==
  IF task.fn = "_check_timeout"
  THEN task.key = SellerWindowId(s, l.cam_id, l.window_id)
  ELSE task.key = PosKey(s, l.pos_id)

\* C22: a step that changes what the buffers hold for a lane is the delivery
\* of an event of that lane or the run of a timer task created for that
\* lane, and the session of every pair evaluated and of every record handed
\* to the sink in a step is of the lane the step is about.
C22_LanesAreIndependent ==
  [][\A s \in stores, l \in lanes :
       LET delivery == Len(arrivals') > Len(arrivals)
           a == arrivals'[Len(arrivals')]
           ran == fired' \ fired
           about ==
             \/ delivery /\ (IF a.stream = "VAS" THEN SessionOfLane(a.event, s, l)
                              ELSE BillOfLane(a.event, s, l))
             \/ \E f \in ran : TaskOfLane(f.task, s, l)
       IN  ~about =>
             /\ LaneEntries(pending_vas', pending_pos', s, l)
                  = LaneEntries(pending_vas, pending_pos, s, l)
             /\ \A n \in DOMAIN analyzed' :
                  n > Len(analyzed) => ~SessionOfLane(analyzed'[n].vas, s, l)
             /\ \A n \in DOMAIN sink' :
                  n > Len(sink) =>
                    \A b \in Range(arrivals') :
                      (b.stream = "VAS" /\ b.event.SessionId = sink'[n].vas)
                      => ~SessionOfLane(b.event, s, l)]_vars

\* C22 witness: the timer task of a session of one lane has removed it while
\* a bill of another lane, delivered before, is still buffered.
C22_Witness ==
  \E f \in fired, k \in DOMAIN pending_pos :
    /\ f.task.fn = "_check_timeout"
    /\ f.removed
    /\ f.task.event.StoreId # pending_pos[k].StoreId
    /\ pending_pos[k].uid < f.task.event.SessionId

====
